---------------------------- MODULE Spec2Model ----------------------------
(***************************************************************************)
(* SequentialFile: a directory of numbered files kept as a FIFO queue.    *)
(* The instance state (queue, lastFileNum, scanDirCompleted), the queue   *)
(* directory on disk, the calling threads and the lazily created mutex.   *)
(* File names are sequences of one-character strings so that sscanf,      *)
(* String::format and String::endsWith are computed as the code computes  *)
(* them.                                                                   *)
(***************************************************************************)
EXTENDS Integers, Sequences, FiniteSets, TLC

VARIABLES
    dir,               \* listing of the queue directory, in readdir order
    dirExists,         \* the queue directory exists on disk
    filenameExtension, \* SequentialFile::filenameExtension
    queue,             \* SequentialFile::queue (std::deque<int>)
    lastFileNum,       \* SequentialFile::lastFileNum
    scanDirCompleted,  \* SequentialFile::scanDirCompleted
    last,              \* the call that produced this state, with its result
    hist,              \* enqueue/dequeue history of the instance
    scans,             \* runs of scanDir since the instance was made or purged
    nCalls,            \* number of calls made so far
    pc,                \* per thread: the statement it is at
    loc,               \* per thread: the call it is in and its locals
    queueMutex,        \* SequentialFile::queueMutex, 0 before it is created
    owner,             \* per mutex created: the thread that holds it
    dirPath,           \* SequentialFile::dirPath
    fault,             \* the filesystem call that fails for the queue directory
    objects,           \* SequentialFileShared::objects: dirPath of each instance
    got,               \* the last getInstance: its argument and what it returned
    walk               \* the removeAll or removeFileNum call under way: its
                       \* statement, the findLeafEntry frames, the handles

\* the variables of the threads
tvars == <<pc, loc, queueMutex, owner>>

\* the path, the filesystem faults and the registry of instances
fvars == <<dirPath, fault, objects, got>>

\* those, and the directory walk
evars == <<fvars, walk>>

vars == <<dir, dirExists, filenameExtension, queue, lastFileNum,
          scanDirCompleted, last, hist, scans, nCalls, pc, loc, queueMutex,
          owner, dirPath, fault, objects, got, walk>>

---------------------------------------------------------------------------
(* Bounds of the model *)

MaxCalls == 3        \* calls per behaviour
MaxInitFiles == 1    \* entries in the directory found at start
MaxAddNum == 1       \* addFileToQueue is called with 0..MaxAddNum
MaxFileNum == 7      \* reserveFile is not called at or above this mark
MaxFifoCalls == 5    \* calls per behaviour of SpecFifo
MaxScanFiles == 3    \* entries in a directory of SpecScan
MaxThreadCalls == 2  \* calls each thread makes in SpecConc
MaxPathLen == 3      \* characters of a directory path passed in
MaxRegCalls == 3     \* getInstance calls per behaviour of SpecShared
MaxPathCalls == 3    \* calls per behaviour of SpecPath
MaxFailCalls == 3    \* calls per behaviour of SpecFail
MaxWalkFiles == 2    \* entries in a directory of SpecWalk
MaxWalkCalls == 1    \* calls per behaviour of SpecWalk

(* Program constants *)

ScanWidth == 8       \* the field width of the default pattern "%08d"

---------------------------------------------------------------------------
(* Characters and strings *)

DigitChars == <<"0", "1", "2", "3", "4", "5", "6", "7", "8", "9">>

IsDigit(c) == \E i \in 1..10 : DigitChars[i] = c

DigitVal(c) == (CHOOSE i \in 1..10 : DigitChars[i] = c) - 1

IsSpace(c) == c = " "

RECURSIVE SkipSpace(_)
SkipSpace(s) ==
    IF s # <<>> /\ IsSpace(Head(s)) THEN SkipSpace(Tail(s)) ELSE s

\* the longest prefix of s made of digits, at most w characters long
RECURSIVE TakeDigits(_, _)
TakeDigits(s, w) ==
    IF w = 0 \/ s = <<>> \/ ~IsDigit(Head(s)) THEN <<>>
    ELSE <<Head(s)>> \o TakeDigits(Tail(s), w - 1)

RECURSIVE DecVal(_)
DecVal(ds) ==
    IF ds = <<>> THEN 0
    ELSE 10 * DecVal(SubSeq(ds, 1, Len(ds) - 1)) + DigitVal(ds[Len(ds)])

\* sscanf(name, "%08d", &fileNum): leading white space is skipped, an
\* optional sign and digits are read up to the field width, whatever follows
\* the field is left unread.  count is the return value of sscanf.
Sscanf(name) ==
    LET s1 == SkipSpace(name)
        signed == s1 # <<>> /\ Head(s1) \in {"+", "-"}
        s2 == IF signed THEN Tail(s1) ELSE s1
        w == IF signed THEN ScanWidth - 1 ELSE ScanWidth
        ds == TakeDigits(s2, w)
    IN  IF s1 = <<>> THEN [count |-> -1, value |-> 0]
        ELSE IF ds = <<>> THEN [count |-> 0, value |-> 0]
        ELSE [count |-> 1,
              value |-> IF signed /\ Head(s1) = "-" THEN 0 - DecVal(ds)
                        ELSE DecVal(ds)]

RECURSIVE Digits(_)
Digits(n) ==
    IF n < 10 THEN <<DigitChars[n + 1]>>
    ELSE Digits(n \div 10) \o <<DigitChars[(n % 10) + 1]>>

RECURSIVE ZeroPad(_, _)
ZeroPad(s, w) == IF Len(s) >= w THEN s ELSE ZeroPad(<<"0">> \o s, w)

\* String::format("%08d", fileNum)
Format(n) ==
    IF n >= 0 THEN ZeroPad(Digits(n), ScanWidth)
    ELSE <<"-">> \o ZeroPad(Digits(0 - n), ScanWidth - 1)

\* String::endsWith
EndsWith(s, suffix) ==
    /\ Len(s) >= Len(suffix)
    /\ SubSeq(s, Len(s) - Len(suffix) + 1, Len(s)) = suffix

getNameWithOptionalExt(name, ext) ==
    IF ext # <<>> THEN name \o <<".">> \o ext ELSE name

\* overrideExt is NULL when no override is given (no extension is this value)
NULL == <<"NULL">>

getNameForFileNum(fileNum, overrideExt) ==
    getNameWithOptionalExt(Format(fileNum),
        IF overrideExt # NULL THEN overrideExt ELSE filenameExtension)

---------------------------------------------------------------------------
(* The directory: a listing of entries [name, type, kids]; kids is the     *)
(* listing of a subdirectory and <<>> for a plain file.                    *)

RegFile(name) == [name |-> name, type |-> "REG", kids |-> <<>>]

SubDir(name, kids) == [name |-> name, type |-> "DIR", kids |-> kids]

Names(d) == {d[i].name : i \in 1..Len(d)}

\* the listing without its i-th entry
RemoveAt(d, i) == SubSeq(d, 1, i - 1) \o SubSeq(d, i + 1, Len(d))

RECURSIVE RemovePlain(_, _)
\* unlink(dirPath + "/" + name): removes the plain file of that name
RemovePlain(d, name) ==
    IF d = <<>> THEN <<>>
    ELSE IF Head(d).type = "REG" /\ Head(d).name = name THEN Tail(d)
    ELSE <<Head(d)>> \o RemovePlain(Tail(d), name)

---------------------------------------------------------------------------
(* scanDir *)

\* the virtual hook of the base class
preScanAddHook(ent) == TRUE

\* the test scanDir applies to one directory entry before queueing it
ScanAccepts(ent, ext) ==
    /\ ent.type = "REG"
    /\ Sscanf(ent.name).count = 1
    /\ (Len(ext) = 0 \/ EndsWith(ent.name, ext))
    /\ preScanAddHook(ent)

\* the file numbers scanDir pushes for the listing d, in listing order
RECURSIVE ScanNums(_, _)
ScanNums(d, ext) ==
    IF d = <<>> THEN <<>>
    ELSE (IF ScanAccepts(Head(d), ext) THEN <<Sscanf(Head(d).name).value>>
          ELSE <<>>) \o ScanNums(Tail(d), ext)

\* lastFileNum = 0, then raised to every queued number above it
RECURSIVE ScanLast(_, _)
ScanLast(nums, m) ==
    IF nums = <<>> THEN m
    ELSE ScanLast(Tail(nums), IF Head(nums) > m THEN Head(nums) ELSE m)

\* the filesystem call of scanDir that fails, if any: stat with an errno
\* other than ENOENT, mkdir, opendir
Faults == {"none", "stat", "mkdir", "opendir"}

\* scanDir: dirPath.length() > 1
PathOk == Len(dirPath) > 1

\* createDirIfNecessary returns true
CreateOk == fault # "stat" /\ (dirExists \/ fault # "mkdir")

\* scanDir without the test of the result of opendir
ScanOkUnchecked == PathOk /\ CreateOk

\* scanDir gets past the path test, createDirIfNecessary and opendir
ScanOk == PathOk /\ CreateOk /\ fault # "opendir"

\* the directory exists when scanDir returns
ExistsAfterCreate == dirExists \/ (PathOk /\ CreateOk)

\* createDirIfNecessary: an existing directory is kept, a missing one made
DirAfterCreate == IF dirExists THEN dir ELSE <<>>

\* deque operations
PushFront(q, n) == <<n>> \o q

PushBack(q, n) == Append(q, n)

\* queue.back()
Back(q) == q[Len(q)]

Front(q) == Head(q)

PopFront(q) == Tail(q)

\* the queue and the mark when scanDir returns
ScanDirQueue(q) == q \o ScanNums(DirAfterCreate, filenameExtension)

ScanDirLast == ScanLast(ScanNums(DirAfterCreate, filenameExtension), 0)

\* if (!scanDirCompleted) scanDir(); as the first statement of a call:
\* the scan runs and reads the directory
LazyScans == ~scanDirCompleted /\ ScanOk

LazyQueue == IF LazyScans THEN ScanDirQueue(queue) ELSE queue

LazyLast == IF LazyScans THEN ScanDirLast ELSE lastFileNum

LazyDir == IF LazyScans THEN DirAfterCreate ELSE dir

LazyDirExists == IF scanDirCompleted THEN dirExists ELSE ExistsAfterCreate

LazyCompleted == scanDirCompleted \/ ScanOk

---------------------------------------------------------------------------
(* findLeafEntry, removeAll, removeFileNum *)

\* findLeafEntry(pathBuf, ..., &found) without a callback: the first entry
\* is taken; a subdirectory is descended into, and an error of the inner
\* call (an empty subdirectory gives SYSTEM_ERROR_NOT_FOUND) is returned
\* before found is set.
RECURSIVE FindLeafFound(_)
FindLeafFound(d) ==
    /\ d # <<>>
    /\ (Head(d).type = "DIR" => FindLeafFound(Head(d).kids))

\* unlink(pathBuf) of the leaf findLeafEntry left in pathBuf
RECURSIVE UnlinkLeaf(_)
UnlinkLeaf(d) ==
    IF Head(d).type = "DIR"
    THEN <<[Head(d) EXCEPT !.kids = UnlinkLeaf(Head(d).kids)]>> \o Tail(d)
    ELSE Tail(d)

\* the for (;;) loop of removeAll
RECURSIVE RemoveAllLoop(_)
RemoveAllLoop(d) ==
    IF FindLeafFound(d) THEN RemoveAllLoop(UnlinkLeaf(d)) ELSE d

\* the callback removeFileNum passes to findLeafEntry
ProcessMatches(ent, fileNum) ==
    /\ ent.type = "REG"
    /\ Sscanf(ent.name).count = 1
    /\ Sscanf(ent.name).value = fileNum

\* findLeafEntry with the callback, when readdir on the closed handle keeps
\* returning the entries that follow
RECURSIVE WalkAll(_, _)
WalkAll(d, fileNum) ==
    IF d = <<>> THEN <<>>
    ELSE IF Head(d).type = "DIR"
         THEN IF FindLeafFound(Head(d).kids)
              THEN <<Head(d)>> \o WalkAll(Tail(d), fileNum)
              ELSE d
         ELSE IF ProcessMatches(Head(d), fileNum)
              THEN WalkAll(Tail(d), fileNum)
              ELSE <<Head(d)>> \o WalkAll(Tail(d), fileNum)

\* findLeafEntry with the callback, when readdir on the closed handle
\* returns NULL: only the first entry is processed
WalkFirst(d, fileNum) ==
    IF d # <<>> /\ ProcessMatches(Head(d), fileNum) THEN Tail(d) ELSE d

\* what readdir does with a handle that closedir already released
StaleOutcomes == {"null", "works"}

\* the listing after removeFileNum(fileNum, allExtensions)
RemoveFileNumDir(d, fileNum, allExtensions, stale) ==
    IF allExtensions
    THEN IF stale = "works" THEN WalkAll(d, fileNum) ELSE WalkFirst(d, fileNum)
    ELSE RemovePlain(d, getNameForFileNum(fileNum, NULL))

\* the numbers some plain file of the listing parses to
ParsedNums(d) ==
    {Sscanf(d[i].name).value :
        i \in {j \in 1..Len(d) : d[j].type = "REG" /\ Sscanf(d[j].name).count = 1}}

\* no two plain files of the listing parse to the same number
OneFilePerNum(d) ==
    \A i, j \in 1..Len(d) :
        (/\ i # j
         /\ d[i].type = "REG" /\ Sscanf(d[i].name).count = 1
         /\ d[j].type = "REG" /\ Sscanf(d[j].name).count = 1)
        => Sscanf(d[i].name).value # Sscanf(d[j].name).value

---------------------------------------------------------------------------
(* Histories *)

Fresh == [fifo |-> TRUE, enq |-> <<>>, deq |-> <<>>]

Broken == [fifo |-> FALSE, enq |-> <<>>, deq |-> <<>>]

\* the history after the lazy scan of a call: a scan that queues a file
\* ends the plain enqueue/dequeue history
LazyHist ==
    IF LazyScans /\ ScanNums(DirAfterCreate, filenameExtension) # <<>>
    THEN Broken ELSE hist

\* the record of a call: its arguments and result, and what it found:
\* preLast, preLen, preScanned are the members before the call, q is the
\* queue the call worked on (after its lazy scan), purged says that the
\* call before it was removeAll(true), fault, preExists and preScans are
\* the filesystem as the call found it; added are the numbers the caller
\* has passed to addFileToQueue so far, again says that it passed one of
\* them a second time, multi that it wrote a second file for some number
Call(op, n, flag, ret, q) ==
    [op |-> op, n |-> n, flag |-> flag, ret |-> ret,
     preLast |-> lastFileNum, preLen |-> Len(queue),
     preScanned |-> scanDirCompleted, q |-> q,
     purged |-> (last.op = "removeAll" /\ last.flag),
     fault |-> fault, preExists |-> dirExists, preScans |-> scans,
     added |-> IF op = "addFileToQueue" THEN last.added \cup {n}
               ELSE last.added,
     again |-> last.again \/ (op = "addFileToQueue" /\ n \in last.added),
     multi |-> last.multi \/ (op = "writeFile" /\ n \in ParsedNums(dir))]

getQueueLen == Len(queue)

---------------------------------------------------------------------------
(* Threads *)

Threads == {"producer", "consumer"}

\* a thread creates the mutex at most once
MutexIds == 1..Cardinality(Threads)

\* the locals of a thread that is in no call
NoCall ==
    [op |-> "none", n |-> 0, inScan |-> FALSE, idx |-> 0, fileNum |-> 0,
     m |-> 0, q |-> <<>>, tmp |-> 0, calls |-> 0, adds |-> 0,
     res |-> <<>>]

---------------------------------------------------------------------------
(* Directory contents found at start *)

Zeros7 == <<"0", "0", "0", "0", "0", "0", "0">>

ExtDat == <<"d", "a", "t">>

ExtSha1 == <<"s", "h", "a", "1">>

Name5Dat == Zeros7 \o <<"5", ".">> \o ExtDat        \* 00000005.dat

Name2Dat == Zeros7 \o <<"2", ".">> \o ExtDat        \* 00000002.dat

NameXDat == Zeros7 \o <<"X", ".">> \o ExtDat        \* 0000000X.dat

Name5NoDot == Zeros7 \o <<"5">> \o ExtDat           \* 00000005dat

Name5Sha1 == Zeros7 \o <<"5", ".">> \o ExtSha1      \* 00000005.sha1

Name1Bare == Zeros7 \o <<"1">>                      \* 00000001

NameNotes == <<"n", "o", "t", "e", "s">>            \* notes

SubEntry == SubDir(<<"s", "u", "b">>, <<RegFile(NameNotes)>>)

Extensions == {<<>>, ExtDat}

\* listings of at most k entries of S, no name twice
Listings(S, k) ==
    {d \in UNION {[1..m -> S] : m \in 0..k} :
        \A i, j \in 1..Len(d) : i # j => d[i].name # d[j].name}

InitEntries ==
    {RegFile(Name5Dat), RegFile(Name2Dat), RegFile(NameXDat), SubEntry}

---------------------------------------------------------------------------
(* A new instance *)

\* the record of no call
NoLast ==
    [op |-> "new", n |-> 0, flag |-> FALSE, ret |-> 0,
     preLast |-> 0, preLen |-> 0, preScanned |-> FALSE,
     q |-> <<>>, purged |-> FALSE,
     fault |-> "none", preExists |-> FALSE, preScans |-> 0,
     added |-> {}, again |-> FALSE, multi |-> FALSE]

\* no getInstance call yet
NoGot == [arg |-> <<>>, ret |-> 0]

\* a null dirent pointer
NoEnt == [name |-> <<>>, type |-> "NONE", kids |-> <<>>]

\* no removeAll or removeFileNum(n, true) under way: no findLeafEntry frame
\* and no handle; readClosed and closeClosed say that readdir, closedir was
\* called on a handle that closedir had released
NoWalk ==
    [op |-> "none", at |-> "idle", flag |-> FALSE, fileNum |-> 0,
     found |-> FALSE, ret |-> 0, path |-> <<>>, stack |-> <<>>,
     handles |-> <<>>, readClosed |-> FALSE, closeClosed |-> FALSE]

\* the queue directory "/q"
QueuePath == <<"/", "q">>

\* the instance is configured with QueuePath, the filesystem works and no
\* instance is registered
InitEnv ==
    /\ dirPath = QueuePath
    /\ fault = "none"
    /\ objects = <<>>
    /\ got = NoGot
    /\ walk = NoWalk

---------------------------------------------------------------------------
(* Calls on one instance from a single thread *)

Init ==
    /\ dir \in Listings(InitEntries, MaxInitFiles)
    /\ dirExists \in (IF dir = <<>> THEN BOOLEAN ELSE {TRUE})
    /\ filenameExtension \in Extensions
    /\ queue = <<>>
    /\ lastFileNum = 0
    /\ scanDirCompleted = FALSE
    /\ last = NoLast
    /\ hist = Fresh
    /\ nCalls = 0
    /\ scans = 0
    /\ pc = [t \in Threads |-> "idle"]
    /\ loc = [t \in Threads |-> NoCall]
    /\ queueMutex = 0
    /\ owner = [m \in MutexIds |-> "none"]
    /\ InitEnv

ScanDir ==
    /\ dir' = IF ScanOk THEN DirAfterCreate ELSE dir
    /\ dirExists' = ExistsAfterCreate
    /\ lastFileNum' = IF ScanOk THEN ScanDirLast ELSE lastFileNum
    /\ queue' = IF ScanOk THEN ScanDirQueue(queue) ELSE queue
    /\ scanDirCompleted' = (scanDirCompleted \/ ScanOk)
    /\ hist' = IF ScanOk /\ ScanNums(DirAfterCreate, filenameExtension) # <<>>
               THEN Broken ELSE hist
    /\ last' = Call("scanDir", 0, FALSE, IF ScanOk THEN 1 ELSE 0, queue)
    /\ nCalls' = nCalls + 1
    /\ scans' = IF ScanOk THEN scans + 1 ELSE scans
    /\ UNCHANGED <<tvars, evars>>
    /\ UNCHANGED filenameExtension

\* the value of lastFileNum++
PostIncrement(n) == n

\* the value of ++lastFileNum
PreIncrement(n) == n + 1

ReserveFile ==
    /\ dir' = LazyDir
    /\ dirExists' = LazyDirExists
    /\ queue' = LazyQueue
    /\ scanDirCompleted' = LazyCompleted
    /\ lastFileNum' = LazyLast + 1
    /\ hist' = LazyHist
    /\ last' = Call("reserveFile", 0, FALSE, PreIncrement(LazyLast), LazyQueue)
    /\ nCalls' = nCalls + 1
    /\ scans' = IF LazyScans THEN scans + 1 ELSE scans
    /\ UNCHANGED <<tvars, evars>>
    /\ UNCHANGED filenameExtension

AddFileToQueue(fileNum) ==
    /\ dir' = LazyDir
    /\ dirExists' = LazyDirExists
    /\ scanDirCompleted' = LazyCompleted
    /\ lastFileNum' = IF fileNum > LazyLast THEN fileNum ELSE LazyLast
    /\ queue' = PushBack(LazyQueue, fileNum)
    /\ hist' = IF LazyHist.fifo
               THEN [LazyHist EXCEPT !.enq = Append(@, fileNum)]
               ELSE LazyHist
    /\ last' = Call("addFileToQueue", fileNum, FALSE, 0, LazyQueue)
    /\ nCalls' = nCalls + 1
    /\ scans' = IF LazyScans THEN scans + 1 ELSE scans
    /\ UNCHANGED <<tvars, evars>>
    /\ UNCHANGED filenameExtension

GetFileFromQueue(remove) ==
    LET q == LazyQueue
        fileNum == IF q # <<>> THEN Front(q) ELSE 0
    IN  /\ dir' = LazyDir
        /\ dirExists' = LazyDirExists
        /\ scanDirCompleted' = LazyCompleted
        /\ lastFileNum' = LazyLast
        /\ queue' = IF q # <<>> /\ remove THEN PopFront(q) ELSE q
        /\ hist' = IF LazyHist.fifo /\ q # <<>> /\ remove
                   THEN [LazyHist EXCEPT !.deq = Append(@, fileNum)]
                   ELSE LazyHist
        /\ last' = Call("getFileFromQueue", 0, remove, fileNum, q)
        /\ nCalls' = nCalls + 1
        /\ scans' = IF LazyScans THEN scans + 1 ELSE scans
        /\ UNCHANGED <<tvars, evars>>
        /\ UNCHANGED filenameExtension

\* queue.erase(queue.begin())
EraseFirst(q) == Tail(q)

\* queue.erase(iter) with iter at the second element
EraseSecond(q) == <<q[1]>> \o SubSeq(q, 3, Len(q))

RemoveSecondFileInQueue ==
    LET q == LazyQueue
        has == Len(q) >= 2
    IN  /\ dir' = LazyDir
        /\ dirExists' = LazyDirExists
        /\ scanDirCompleted' = LazyCompleted
        /\ lastFileNum' = LazyLast
        /\ queue' = IF has THEN EraseSecond(q) ELSE q
        /\ hist' = IF has THEN Broken ELSE LazyHist
        /\ last' = Call("removeSecondFileInQueue", 0, FALSE,
                        IF has THEN q[2] ELSE 0, q)
        /\ nCalls' = nCalls + 1
        /\ scans' = IF LazyScans THEN scans + 1 ELSE scans
        /\ UNCHANGED <<tvars, evars>>
        /\ UNCHANGED filenameExtension

RemoveFileNum(fileNum, allExtensions, stale) ==
    /\ dirExists
    /\ dir' = RemoveFileNumDir(dir, fileNum, allExtensions, stale)
    /\ last' = Call("removeFileNum", fileNum, allExtensions, 0, queue)
    /\ nCalls' = nCalls + 1
    /\ scans' = scans
    /\ UNCHANGED <<tvars, evars>>
    /\ UNCHANGED <<dirExists, filenameExtension, queue, lastFileNum,
                   scanDirCompleted, hist>>

RemoveAll(removeDir) ==
    LET d == IF dirExists THEN RemoveAllLoop(dir) ELSE dir
    IN  /\ dir' = d
        /\ dirExists' = IF removeDir /\ d = <<>> THEN FALSE ELSE dirExists
        /\ queue' = <<>>
        /\ lastFileNum' = 0
        /\ scanDirCompleted' = FALSE
        /\ hist' = Fresh
        /\ last' = Call("removeAll", 0, removeDir, 0, queue)
        /\ nCalls' = nCalls + 1
        /\ scans' = 0
        /\ UNCHANGED <<tvars, evars>>
        /\ UNCHANGED filenameExtension

\* the caller creates the file getPathForFileNum(fileNum, overrideExt)
WriteFile(fileNum, overrideExt) ==
    LET name == getNameForFileNum(fileNum, overrideExt)
    IN  /\ dirExists
        /\ name \notin Names(dir)
        /\ dir' = Append(dir, RegFile(name))
        /\ last' = Call("writeFile", fileNum, overrideExt # NULL, 0, queue)
        /\ nCalls' = nCalls + 1
        /\ scans' = scans
        /\ UNCHANGED <<tvars, evars>>
        /\ UNCHANGED <<dirExists, filenameExtension, queue, lastFileNum,
                       scanDirCompleted, hist>>

\* the device restarts: a new instance on the same directory
Restart ==
    /\ queue' = <<>>
    /\ lastFileNum' = 0
    /\ scanDirCompleted' = FALSE
    /\ hist' = Fresh
    /\ last' = Call("restart", 0, FALSE, 0, queue)
    /\ nCalls' = nCalls + 1
    /\ scans' = 0
    /\ UNCHANGED <<tvars, evars>>
    /\ UNCHANGED <<dir, dirExists, filenameExtension>>

\* the calls still allowed to the behaviour
More == nCalls < MaxCalls

Next ==
    \/ More /\ ScanDir
    \/ More /\ LazyLast < MaxFileNum /\ ReserveFile
    \/ More /\ \E n \in 0..MaxAddNum : AddFileToQueue(n)
    \/ More /\ \E remove \in BOOLEAN : GetFileFromQueue(remove)
    \/ More /\ RemoveSecondFileInQueue
    \/ More /\ \E n \in ParsedNums(dir) : RemoveFileNum(n, FALSE, "null")
    \/ More /\ \E n \in ParsedNums(dir), stale \in StaleOutcomes :
                   RemoveFileNum(n, TRUE, stale)
    \/ More /\ \E removeDir \in BOOLEAN : RemoveAll(removeDir)
    \/ More /\ lastFileNum >= 1 /\ \E ext \in {NULL, ExtSha1} :
                   WriteFile(lastFileNum, ext)
    \/ More /\ Restart

Spec == Init /\ [][Next]_vars

---------------------------------------------------------------------------
(* Enqueues and dequeues on an instance whose directory is empty *)

InitFifo ==
    /\ dir = <<>>
    /\ dirExists \in BOOLEAN
    /\ filenameExtension \in Extensions
    /\ queue = <<>>
    /\ lastFileNum = 0
    /\ scanDirCompleted = FALSE
    /\ last = NoLast
    /\ hist = Fresh
    /\ nCalls = 0
    /\ scans = 0
    /\ pc = [t \in Threads |-> "idle"]
    /\ loc = [t \in Threads |-> NoCall]
    /\ queueMutex = 0
    /\ owner = [m \in MutexIds |-> "none"]
    /\ InitEnv

MoreFifo == nCalls < MaxFifoCalls

NextFifo ==
    \/ MoreFifo /\ ScanDir
    \/ MoreFifo /\ LazyLast < MaxFileNum /\ ReserveFile
    \/ MoreFifo /\ \E n \in 0..MaxAddNum : AddFileToQueue(n)
    \/ MoreFifo /\ \E remove \in BOOLEAN : GetFileFromQueue(remove)

SpecFifo == InitFifo /\ [][NextFifo]_vars

---------------------------------------------------------------------------
(* scanDir on a new instance, over the directories it may find *)

ScanEntries ==
    {RegFile(Name5Dat), RegFile(Name2Dat), RegFile(NameXDat),
     RegFile(Name5NoDot), RegFile(Name5Sha1), RegFile(Name1Bare), SubEntry}

InitScan ==
    /\ dir \in Listings(ScanEntries, MaxScanFiles)
    /\ dirExists = TRUE
    /\ filenameExtension \in Extensions
    /\ queue = <<>>
    /\ lastFileNum = 0
    /\ scanDirCompleted = FALSE
    /\ last = NoLast
    /\ hist = Fresh
    /\ nCalls = 0
    /\ scans = 0
    /\ pc = [t \in Threads |-> "idle"]
    /\ loc = [t \in Threads |-> NoCall]
    /\ queueMutex = 0
    /\ owner = [m \in MutexIds |-> "none"]
    /\ InitEnv

NextScan == nCalls = 0 /\ ScanDir

SpecScan == InitScan /\ [][NextScan]_vars

---------------------------------------------------------------------------
(* removeFileNum on a new instance, over the directories it may find *)

NextRemove ==
    /\ nCalls = 0
    /\ \E n \in ParsedNums(dir) \cup {1}, allExtensions \in BOOLEAN,
          stale \in StaleOutcomes :
            RemoveFileNum(n, allExtensions, stale)

SpecRemove == InitScan /\ [][NextRemove]_vars

---------------------------------------------------------------------------
(* reserveFile on a new instance, over the directories it may find *)

NextReserve == nCalls = 0 /\ ReserveFile

SpecReserve == InitScan /\ [][NextReserve]_vars

---------------------------------------------------------------------------
(* Directory paths, and the registry of instances behind getInstance *)

PathChars == {"/", "q"}

\* the paths of one to MaxPathLen characters
Paths == UNION {[1..m -> PathChars] : m \in 1..MaxPathLen}

\* withDirPath: the path as it is stored in dirPath
StoredPath(path) ==
    IF EndsWith(path, <<"/">>) THEN SubSeq(path, 1, Len(path) - 1) ELSE path

\* SequentialFile::withDirPath(path)
WithDirPath(path) ==
    /\ dirPath' = StoredPath(path)
    /\ last' = Call("withDirPath", Len(path), FALSE, 0, queue)
    /\ nCalls' = nCalls + 1
    /\ UNCHANGED <<dir, dirExists, filenameExtension, queue, lastFileNum,
                   scanDirCompleted, hist, scans, fault, objects, got, walk,
                   tvars>>

\* a new instance whose dirPath is not set yet; the directory that the
\* path will name exists
InitPath ==
    /\ dir \in Listings({RegFile(Name5Dat)}, 1)
    /\ dirExists = TRUE
    /\ filenameExtension = ExtDat
    /\ queue = <<>>
    /\ lastFileNum = 0
    /\ scanDirCompleted = FALSE
    /\ last = NoLast
    /\ hist = Fresh
    /\ nCalls = 0
    /\ scans = 0
    /\ pc = [t \in Threads |-> "idle"]
    /\ loc = [t \in Threads |-> NoCall]
    /\ queueMutex = 0
    /\ owner = [m \in MutexIds |-> "none"]
    /\ dirPath = <<>>
    /\ fault = "none"
    /\ objects = <<>>
    /\ got = NoGot
    /\ walk = NoWalk

MorePath == nCalls < MaxPathCalls

NextPath ==
    \/ MorePath /\ \E path \in Paths \cup {<<>>} : WithDirPath(path)
    \/ MorePath /\ ScanDir

SpecPath == InitPath /\ [][NextPath]_vars

\* the result variable of findByPath: the first registered instance whose
\* getDirPath() is equal to the argument, or 0
findByPath(path) ==
    IF \E i \in 1..Len(objects) : objects[i] = path
    THEN CHOOSE i \in 1..Len(objects) :
             /\ objects[i] = path
             /\ \A j \in 1..(i - 1) : objects[j] # path
    ELSE 0

\* a pointer that is no instance and not null
Wild == -1

\* what the caller receives from a function that ends without a return
\* statement, result being the local it meant to return
NoReturn(result, objs) == {result, 0, Wild} \cup (1..Len(objs))

\* SequentialFile::getInstance(dirPath) and getInstance(dirPath, ext)
GetInstance(path) ==
    \E found \in NoReturn(findByPath(path), objects) :
        LET objs == IF found = 0 THEN Append(objects, StoredPath(path))
                    ELSE objects
            result == IF found = 0 THEN Len(objs) ELSE found
        IN  /\ objects' = objs
            /\ \E ret \in NoReturn(result, objs) :
                   got' = [arg |-> path, ret |-> ret]
            /\ last' = Call("getInstance", 0, FALSE, 0, queue)
            /\ nCalls' = nCalls + 1
            /\ UNCHANGED <<dir, dirExists, filenameExtension, queue,
                           lastFileNum, scanDirCompleted, hist, scans,
                           dirPath, fault, walk, tvars>>

NextShared == nCalls < MaxRegCalls /\ \E path \in Paths : GetInstance(path)

SpecShared == InitFifo /\ [][NextShared]_vars

---------------------------------------------------------------------------
(* Calls on an instance whose directory cannot always be created or opened *)

\* the filesystem starts or stops failing
FaultChange ==
    /\ \E f \in Faults \ {fault} : fault' = f
    /\ UNCHANGED <<dir, dirExists, filenameExtension, queue, lastFileNum,
                   scanDirCompleted, last, hist, scans, nCalls, dirPath,
                   objects, got, walk, tvars>>

InitFail ==
    /\ dir \in Listings({RegFile(Name5Dat)}, 1)
    /\ dirExists \in (IF dir = <<>> THEN BOOLEAN ELSE {TRUE})
    /\ filenameExtension = ExtDat
    /\ queue = <<>>
    /\ lastFileNum = 0
    /\ scanDirCompleted = FALSE
    /\ last = NoLast
    /\ hist = Fresh
    /\ nCalls = 0
    /\ scans = 0
    /\ pc = [t \in Threads |-> "idle"]
    /\ loc = [t \in Threads |-> NoCall]
    /\ queueMutex = 0
    /\ owner = [m \in MutexIds |-> "none"]
    /\ dirPath = QueuePath
    /\ fault \in Faults
    /\ objects = <<>>
    /\ got = NoGot
    /\ walk = NoWalk

MoreFail == nCalls < MaxFailCalls

NextFail ==
    \/ MoreFail /\ FaultChange
    \/ MoreFail /\ ScanDir
    \/ MoreFail /\ ReserveFile
    \/ MoreFail /\ \E n \in 1..MaxAddNum : AddFileToQueue(n)
    \/ MoreFail /\ \E remove \in BOOLEAN : GetFileFromQueue(remove)

SpecFail == InitFail /\ [][NextFail]_vars

---------------------------------------------------------------------------
(* Two threads on one instance, one statement at a time.  Reads and       *)
(* writes of the int and bool members are single steps.  A deque          *)
(* operation reads the deque and then writes it: when two threads are in  *)
(* their critical sections together, the later write is computed from a   *)
(* stale read.                                                             *)

InitConc ==
    /\ dir \in Listings({RegFile(Name5Dat)}, 1)
    /\ dirExists = TRUE
    /\ filenameExtension = ExtDat
    /\ queue = <<>>
    /\ lastFileNum = 0
    /\ scanDirCompleted = FALSE
    /\ last = NoLast
    /\ hist = Fresh
    /\ nCalls = 0
    /\ scans = 0
    /\ pc = [t \in Threads |-> "idle"]
    /\ loc = [t \in Threads |-> NoCall]
    /\ queueMutex = 0
    /\ owner = [m \in MutexIds |-> "none"]
    /\ InitEnv

\* the calls a thread makes
OpsOf(t) ==
    IF t = "producer" THEN {"reserveFile", "addFileToQueue"}
    ELSE {"getFileFromQueue"}

\* the statement after if (!scanDirCompleted) scanDir();
BodyOf(op) ==
    CASE op = "reserveFile" -> "resLoad"
      [] op = "addFileToQueue" -> "addMark"
      [] OTHER -> "lockCheck"

Goto(t, label) == pc' = [pc EXCEPT ![t] = label]

\* the variables a step of the thread code leaves alone
seqvars == <<filenameExtension, last, nCalls, evars>>

\* a thread enters reserveFile, addFileToQueue (with a number not passed
\* before) or getFileFromQueue(true)
CallBegin(t) ==
    /\ pc[t] = "idle"
    /\ loc[t].calls < MaxThreadCalls
    /\ \E op \in OpsOf(t) :
        loc' = [loc EXCEPT ![t].op = op,
                           ![t].calls = @ + 1,
                           ![t].adds = IF op = "addFileToQueue" THEN @ + 1 ELSE @,
                           ![t].n = IF op = "addFileToQueue"
                                    THEN loc[t].adds + 1 ELSE 0]
    /\ Goto(t, "check")
    /\ UNCHANGED <<dir, dirExists, queue, lastFileNum, scanDirCompleted, hist,
                   scans, queueMutex, owner, seqvars>>

\* if (!scanDirCompleted)
Check(t) ==
    /\ pc[t] = "check"
    /\ Goto(t, IF scanDirCompleted THEN BodyOf(loc[t].op) ELSE "scanOpen")
    /\ UNCHANGED <<dir, dirExists, queue, lastFileNum, scanDirCompleted, hist,
                   scans, loc, queueMutex, owner, seqvars>>

\* scanDir up to lastFileNum = 0, or up to the return false before it
ScanOpen(t) ==
    /\ pc[t] = "scanOpen"
    /\ dirExists' = ExistsAfterCreate
    /\ IF ScanOk
       THEN /\ dir' = DirAfterCreate
            /\ lastFileNum' = 0
            /\ scans' = scans + 1
            /\ loc' = [loc EXCEPT ![t].idx = 1]
            /\ Goto(t, "scanRead")
       ELSE /\ Goto(t, BodyOf(loc[t].op))
            /\ UNCHANGED <<dir, lastFileNum, scans, loc>>
    /\ UNCHANGED <<queue, scanDirCompleted, hist, queueMutex, owner, seqvars>>

\* one readdir of the scan loop, up to queueMutexLock
ScanRead(t) ==
    /\ pc[t] = "scanRead"
    /\ IF loc[t].idx > Len(dir)
       THEN /\ Goto(t, "scanDone")
            /\ UNCHANGED <<lastFileNum, loc>>
       ELSE LET ent == dir[loc[t].idx]
                fileNum == Sscanf(ent.name).value
            IN  IF ScanAccepts(ent, filenameExtension)
                THEN /\ lastFileNum' = IF fileNum > lastFileNum
                                       THEN fileNum ELSE lastFileNum
                     /\ loc' = [loc EXCEPT ![t].idx = @ + 1,
                                           ![t].fileNum = fileNum,
                                           ![t].inScan = TRUE]
                     /\ Goto(t, "lockCheck")
                ELSE /\ loc' = [loc EXCEPT ![t].idx = @ + 1]
                     /\ UNCHANGED <<lastFileNum, pc>>
    /\ UNCHANGED <<dir, dirExists, queue, scanDirCompleted, hist, scans,
                   queueMutex, owner, seqvars>>

\* closedir(dir); scanDirCompleted = true;
ScanDone(t) ==
    /\ pc[t] = "scanDone"
    /\ scanDirCompleted' = TRUE
    /\ Goto(t, BodyOf(loc[t].op))
    /\ UNCHANGED <<dir, dirExists, queue, lastFileNum, hist, scans, loc,
                   queueMutex, owner, seqvars>>

\* reserveFile: the read of ++lastFileNum
ResLoad(t) ==
    /\ pc[t] = "resLoad"
    /\ loc' = [loc EXCEPT ![t].tmp = lastFileNum]
    /\ Goto(t, "resStore")
    /\ UNCHANGED <<dir, dirExists, queue, lastFileNum, scanDirCompleted, hist,
                   scans, queueMutex, owner, seqvars>>

\* reserveFile: the write of ++lastFileNum, and the return
ResStore(t) ==
    /\ pc[t] = "resStore"
    /\ lastFileNum' = loc[t].tmp + 1
    /\ loc' = [loc EXCEPT ![t].op = "none", ![t].fileNum = loc[t].tmp + 1,
                          ![t].res = Append(@, loc[t].tmp + 1)]
    /\ Goto(t, "idle")
    /\ UNCHANGED <<dir, dirExists, queue, scanDirCompleted, hist, scans,
                   queueMutex, owner, seqvars>>

\* addFileToQueue: if (fileNum > lastFileNum) lastFileNum = fileNum;
AddMark(t) ==
    /\ pc[t] = "addMark"
    /\ lastFileNum' = IF loc[t].n > lastFileNum THEN loc[t].n ELSE lastFileNum
    /\ loc' = [loc EXCEPT ![t].fileNum = loc[t].n]
    /\ Goto(t, "lockCheck")
    /\ UNCHANGED <<dir, dirExists, queue, scanDirCompleted, hist, scans,
                   queueMutex, owner, seqvars>>

\* queueMutexLock: if (!queueMutex)
LockCheck(t) ==
    /\ pc[t] = "lockCheck"
    /\ Goto(t, IF queueMutex = 0 THEN "lockCreate" ELSE "lockArg")
    /\ UNCHANGED <<dir, dirExists, queue, lastFileNum, scanDirCompleted, hist,
                   scans, loc, queueMutex, owner, seqvars>>

\* the mutexes created so far
Created == {m \in MutexIds : \E t \in Threads : loc[t].m = m} \cup
           (IF queueMutex = 0 THEN {} ELSE {queueMutex})

\* queueMutexLock: os_mutex_create(&queueMutex)
LockCreate(t) ==
    /\ pc[t] = "lockCreate"
    /\ queueMutex' = CHOOSE m \in MutexIds : m \notin Created
    /\ Goto(t, "lockArg")
    /\ UNCHANGED <<dir, dirExists, queue, lastFileNum, scanDirCompleted, hist,
                   scans, loc, owner, seqvars>>

\* queueMutexLock: the argument of os_mutex_lock(queueMutex) is read
LockArg(t) ==
    /\ pc[t] = "lockArg"
    /\ loc' = [loc EXCEPT ![t].m = queueMutex]
    /\ Goto(t, "lockWait")
    /\ UNCHANGED <<dir, dirExists, queue, lastFileNum, scanDirCompleted, hist,
                   scans, queueMutex, owner, seqvars>>

\* queueMutexLock: os_mutex_lock returns when the mutex is free
LockWait(t) ==
    /\ pc[t] = "lockWait"
    /\ owner[loc[t].m] = "none"
    /\ owner' = [owner EXCEPT ![loc[t].m] = t]
    /\ Goto(t, "critLoad")
    /\ UNCHANGED <<dir, dirExists, queue, lastFileNum, scanDirCompleted, hist,
                   scans, loc, queueMutex, seqvars>>

\* the deque operation reads the deque
CritLoad(t) ==
    /\ pc[t] = "critLoad"
    /\ loc' = [loc EXCEPT ![t].q = queue]
    /\ Goto(t, "critStore")
    /\ UNCHANGED <<dir, dirExists, queue, lastFileNum, scanDirCompleted, hist,
                   scans, queueMutex, owner, seqvars>>

\* the deque operation writes the deque: push_back(fileNum) in scanDir and
\* addFileToQueue, front() and pop_front() in getFileFromQueue
CritStore(t) ==
    /\ pc[t] = "critStore"
    /\ IF loc[t].inScan \/ loc[t].op = "addFileToQueue"
       THEN /\ queue' = PushBack(loc[t].q, loc[t].fileNum)
            /\ UNCHANGED loc
       ELSE IF loc[t].q # <<>>
            THEN /\ queue' = PopFront(loc[t].q)
                 /\ loc' = [loc EXCEPT ![t].fileNum = Front(loc[t].q)]
            ELSE /\ loc' = [loc EXCEPT ![t].fileNum = 0]
                 /\ UNCHANGED queue
    /\ Goto(t, "unlock")
    /\ UNCHANGED <<dir, dirExists, lastFileNum, scanDirCompleted, hist, scans,
                   queueMutex, owner, seqvars>>

\* queueMutexUnlock: os_mutex_unlock(queueMutex) gives the mutex that
\* queueMutex names now; then the scan loop goes on, or the call returns
Unlock(t) ==
    /\ pc[t] = "unlock"
    /\ owner' = [owner EXCEPT ![queueMutex] = "none"]
    /\ IF loc[t].inScan
       THEN /\ loc' = [loc EXCEPT ![t].inScan = FALSE, ![t].q = <<>>]
            /\ Goto(t, "scanRead")
            /\ UNCHANGED hist
       ELSE /\ loc' = [loc EXCEPT ![t].op = "none", ![t].q = <<>>]
            /\ Goto(t, "idle")
            /\ hist' = IF loc[t].op = "addFileToQueue"
                       THEN [hist EXCEPT !.enq = Append(@, loc[t].fileNum)]
                       ELSE IF loc[t].q # <<>>
                            THEN [hist EXCEPT !.deq = Append(@, loc[t].fileNum)]
                            ELSE hist
    /\ UNCHANGED <<dir, dirExists, queue, lastFileNum, scanDirCompleted, scans,
                   queueMutex, seqvars>>

NextConc ==
    \/ \E t \in Threads : CallBegin(t)
    \/ \E t \in Threads : Check(t)
    \/ \E t \in Threads : ScanOpen(t)
    \/ \E t \in Threads : ScanRead(t)
    \/ \E t \in Threads : ScanDone(t)
    \/ \E t \in Threads : ResLoad(t)
    \/ \E t \in Threads : ResStore(t)
    \/ \E t \in Threads : AddMark(t)
    \/ \E t \in Threads : LockCheck(t)
    \/ \E t \in Threads : LockCreate(t)
    \/ \E t \in Threads : LockArg(t)
    \/ \E t \in Threads : LockWait(t)
    \/ \E t \in Threads : CritLoad(t)
    \/ \E t \in Threads : CritStore(t)
    \/ \E t \in Threads : Unlock(t)

SpecConc == InitConc /\ [][NextConc]_vars

---------------------------------------------------------------------------
(* Two threads that both call reserveFile on one instance *)

\* a thread enters reserveFile
ReserveBegin(t) ==
    /\ pc[t] = "idle"
    /\ loc[t].calls < MaxThreadCalls
    /\ loc' = [loc EXCEPT ![t].op = "reserveFile", ![t].calls = @ + 1]
    /\ Goto(t, "check")
    /\ UNCHANGED <<dir, dirExists, queue, lastFileNum, scanDirCompleted, hist,
                   scans, queueMutex, owner, seqvars>>

NextRes ==
    \/ \E t \in Threads : ReserveBegin(t)
    \/ \E t \in Threads : Check(t)
    \/ \E t \in Threads : ScanOpen(t)
    \/ \E t \in Threads : ScanRead(t)
    \/ \E t \in Threads : ScanDone(t)
    \/ \E t \in Threads : ResLoad(t)
    \/ \E t \in Threads : ResStore(t)
    \/ \E t \in Threads : LockCheck(t)
    \/ \E t \in Threads : LockCreate(t)
    \/ \E t \in Threads : LockArg(t)
    \/ \E t \in Threads : LockWait(t)
    \/ \E t \in Threads : CritLoad(t)
    \/ \E t \in Threads : CritStore(t)
    \/ \E t \in Threads : Unlock(t)

SpecRes == InitConc /\ [][NextRes]_vars

---------------------------------------------------------------------------
(* removeAll and removeFileNum(fileNum, true), one statement at a time:    *)
(* the frames of findLeafEntry with their directory handles.  A listing    *)
(* holds no "." and "..", over which the loop only repeats readdir.        *)

EmptySub == SubDir(<<"e">>, <<>>)

WalkEntries == {RegFile(Name5Dat), RegFile(Name2Dat), SubEntry, EmptySub}

\* unlink fails for the whole run (a read-only filesystem), or never
WalkFaults == {"none", "unlink"}

\* what closedir returns for a handle it has already released
StaleCloses == {"ok", "fails"}

\* the listing of the directory pathBuf names, below the queue directory
RECURSIVE ListingAt(_, _)
ListingAt(d, path) ==
    IF path = <<>> THEN d
    ELSE LET i == CHOOSE j \in 1..Len(d) : d[j].name = Head(path)
         IN  ListingAt(d[i].kids, Tail(path))

\* unlink(pathBuf): the listing without the plain file pathBuf names
RECURSIVE UnlinkPath(_, _)
UnlinkPath(d, path) ==
    IF Len(path) = 1 THEN RemovePlain(d, path[1])
    ELSE [i \in 1..Len(d) |->
             IF d[i].name = Head(path)
             THEN [d[i] EXCEPT !.kids = UnlinkPath(@, Tail(path))]
             ELSE d[i]]

\* what unlink(path) leaves of the directory
Unlinked(d, path) == IF fault = "unlink" THEN d ELSE UnlinkPath(d, path)

\* the frame of the findLeafEntry call that is running
Top == walk.stack[Len(walk.stack)]

\* the running findLeafEntry was given a process callback: the call made
\* by removeFileNum, not the calls findLeafEntry makes itself
HasProcess == walk.op = "removeFileNum" /\ Len(walk.stack) = 1

\* the running findLeafEntry was given a found pointer: the call made by
\* removeAll
HasFound == walk.op = "removeAll" /\ Len(walk.stack) = 1

\* the top frame with some fields changed
SetTop(f) == [walk.stack EXCEPT ![Len(walk.stack)] = f]

\* closedir(dir) on handle h
Closed(handles, h) ==
    [handles EXCEPT ![h] = [state |-> "closed", closes |-> @.closes + 1]]

InitWalk ==
    /\ dir \in Listings(WalkEntries, MaxWalkFiles)
    /\ dirExists \in (IF dir = <<>> THEN BOOLEAN ELSE {TRUE})
    /\ filenameExtension = ExtDat
    /\ queue = <<>>
    /\ lastFileNum = 0
    /\ scanDirCompleted = FALSE
    /\ last = NoLast
    /\ hist = Fresh
    /\ nCalls = 0
    /\ scans = 0
    /\ pc = [t \in Threads |-> "idle"]
    /\ loc = [t \in Threads |-> NoCall]
    /\ queueMutex = 0
    /\ owner = [m \in MutexIds |-> "none"]
    /\ dirPath = QueuePath
    /\ fault \in WalkFaults
    /\ objects = <<>>
    /\ got = NoGot
    /\ walk = NoWalk

\* what a statement of the walk leaves alone
wvars == <<dirExists, filenameExtension, queue, lastFileNum,
           scanDirCompleted, hist, scans, last, nCalls>>

\* removeAll(removeDir) is called: pathBuf is dirPath
RemoveAllBegin(removeDir) ==
    /\ walk.op = "none"
    /\ nCalls < MaxWalkCalls
    /\ walk' = [NoWalk EXCEPT !.op = "removeAll", !.flag = removeDir,
                              !.at = "opendir"]
    /\ UNCHANGED <<dir, wvars, fvars, tvars>>

\* removeFileNum(fileNum, true) is called: pathBuf is dirPath
RemoveFileNumBegin(fileNum) ==
    /\ walk.op = "none"
    /\ nCalls < MaxWalkCalls
    /\ walk' = [NoWalk EXCEPT !.op = "removeFileNum", !.fileNum = fileNum,
                              !.at = "opendir"]
    /\ UNCHANGED <<dir, wvars, fvars, tvars>>

\* DIR* dir = opendir(pathBuf); CHECK_TRUE(dir, ...); and the scope guard
\* that will close the handle.  The call made by removeAll or removeFileNum
\* starts with no handle of an earlier call.
WalkOpendir ==
    /\ walk.at = "opendir"
    /\ LET old == IF walk.stack = <<>> THEN <<>> ELSE walk.handles
           opens == walk.path # <<>> \/ dirExists
           hs == Append(old, [state |-> "open", closes |-> 0])
       IN  walk' =
             IF opens
             THEN [walk EXCEPT
                     !.handles = hs,
                     !.stack = Append(@, [h |-> Len(hs), armed |-> TRUE,
                                          base |-> walk.path, ent |-> NoEnt,
                                          rest |-> ListingAt(dir, walk.path)]),
                     !.at = "readdir"]
             ELSE [walk EXCEPT
                     !.handles = old,
                     !.stack = Append(@, [h |-> 0, armed |-> FALSE,
                                          base |-> walk.path, ent |-> NoEnt,
                                          rest |-> <<>>]),
                     !.ret = -1,
                     !.at = "return"]
    /\ UNCHANGED <<dir, wvars, fvars, tvars>>

\* ent = readdir(dir) as the loop condition.  On a handle that closedir has
\* released the call returns NULL or goes on through the entries.
WalkReaddir ==
    /\ walk.at = "readdir"
    /\ LET open == walk.handles[Top.h].state = "open"
       IN  \E stale \in (IF open THEN {"works"} ELSE StaleOutcomes) :
             walk' =
               IF stale = "works" /\ Top.rest # <<>>
               THEN [walk EXCEPT
                       !.stack = SetTop([Top EXCEPT !.ent = Head(Top.rest),
                                                    !.rest = Tail(Top.rest)]),
                       !.readClosed = @ \/ ~open,
                       !.at = "closedir"]
               ELSE [walk EXCEPT
                       !.stack = SetTop([Top EXCEPT !.ent = NoEnt]),
                       !.readClosed = @ \/ ~open,
                       !.at = "after"]
    /\ UNCHANGED <<dir, wvars, fvars, tvars>>

\* pathBuf gets "/" and ent->d_name; closeDirGuard.dismiss();
\* CHECK_TRUE(closedir(dir) == 0, ...)
WalkClose ==
    /\ walk.at = "closedir"
    /\ LET open == walk.handles[Top.h].state = "open"
       IN  \E r \in (IF open THEN {"ok"} ELSE StaleCloses) :
             walk' = [walk EXCEPT
                        !.path = Top.base \o <<Top.ent.name>>,
                        !.stack = SetTop([Top EXCEPT !.armed = FALSE]),
                        !.handles = Closed(@, Top.h),
                        !.closeClosed = @ \/ ~open,
                        !.ret = IF r = "ok" THEN 0 ELSE -1,
                        !.at = IF r = "ok" THEN "descend" ELSE "return"]
    /\ UNCHANGED <<dir, wvars, fvars, tvars>>

\* if (ent->d_type == DT_DIR) CHECK(findLeafEntry(pathBuf, bufSize, ...))
WalkDescend ==
    /\ walk.at = "descend"
    /\ walk' = [walk EXCEPT
                  !.at = IF Top.ent.type = "DIR" THEN "opendir" ELSE "process"]
    /\ UNCHANGED <<dir, wvars, fvars, tvars>>

\* if (!process) break; else the callback of removeFileNum runs, returns 0
\* and the loop goes on to readdir
WalkProcess ==
    /\ walk.at = "process"
    /\ dir' = IF HasProcess /\ ProcessMatches(Top.ent, walk.fileNum)
              THEN Unlinked(dir, walk.path) ELSE dir
    /\ walk' = [walk EXCEPT !.at = IF HasProcess THEN "readdir" ELSE "after"]
    /\ UNCHANGED <<wvars, fvars, tvars>>

\* CHECK_TRUE(ent, SYSTEM_ERROR_NOT_FOUND); if (found) *found = (bool)ent;
WalkAfter ==
    /\ walk.at = "after"
    /\ walk' = [walk EXCEPT
                  !.ret = IF Top.ent = NoEnt THEN -1 ELSE 0,
                  !.found = @ \/ (HasFound /\ Top.ent # NoEnt),
                  !.at = "return"]
    /\ UNCHANGED <<dir, wvars, fvars, tvars>>

\* findLeafEntry returns: the scope guard closes the handle unless it was
\* dismissed.  The findLeafEntry that called it returns the error as well
\* or goes on; removeAll unlinks what was found or leaves its loop.
WalkReturn ==
    /\ walk.at = "return"
    /\ LET callers == SubSeq(walk.stack, 1, Len(walk.stack) - 1)
       IN  walk' = [walk EXCEPT
                      !.handles = IF Top.armed THEN Closed(@, Top.h) ELSE @,
                      !.closeClosed =
                          @ \/ (Top.armed /\ walk.handles[Top.h].state = "closed"),
                      !.stack = callers,
                      !.at = IF callers # <<>>
                             THEN (IF walk.ret < 0 THEN "return" ELSE "process")
                             ELSE IF walk.op = "removeFileNum" THEN "end"
                             ELSE IF walk.found THEN "unlink" ELSE "clear"]
    /\ UNCHANGED <<dir, wvars, fvars, tvars>>

\* removeFileNum(fileNum, true) returns
RemoveFileNumEnd ==
    /\ walk.at = "end"
    /\ walk' = [walk EXCEPT !.op = "none", !.at = "idle"]
    /\ last' = Call("removeFileNum", walk.fileNum, TRUE, 0, queue)
    /\ nCalls' = nCalls + 1
    /\ UNCHANGED <<dir, dirExists, filenameExtension, queue, lastFileNum,
                   scanDirCompleted, hist, scans, fvars, tvars>>

\* removeAll: unlink(pathBuf), the failure is only logged; pathBuf is reset
\* and the loop starts over with found = false
RemoveAllUnlink ==
    /\ walk.at = "unlink"
    /\ dir' = Unlinked(dir, walk.path)
    /\ walk' = [walk EXCEPT !.path = <<>>, !.found = FALSE,
                            !.at = "opendir"]
    /\ UNCHANGED <<wvars, fvars, tvars>>

\* removeAll after its loop: queue.clear(), rmdir, lastFileNum = 0,
\* scanDirCompleted = false
RemoveAllClear ==
    /\ walk.at = "clear"
    /\ walk' = [walk EXCEPT !.op = "none", !.at = "idle"]
    /\ dirExists' = IF walk.flag /\ dir = <<>> THEN FALSE ELSE dirExists
    /\ queue' = <<>>
    /\ lastFileNum' = 0
    /\ scanDirCompleted' = FALSE
    /\ hist' = Fresh
    /\ last' = Call("removeAll", 0, walk.flag, 0, queue)
    /\ nCalls' = nCalls + 1
    /\ scans' = 0
    /\ UNCHANGED <<dir, filenameExtension, fvars, tvars>>

\* the next statement of the call under way
WalkStep ==
    \/ WalkOpendir
    \/ WalkReaddir
    \/ WalkClose
    \/ WalkDescend
    \/ WalkProcess
    \/ WalkAfter
    \/ WalkReturn
    \/ RemoveFileNumEnd
    \/ RemoveAllUnlink
    \/ RemoveAllClear

NextWalk ==
    \/ \E removeDir \in BOOLEAN : RemoveAllBegin(removeDir)
    \/ \E n \in ParsedNums(dir) \cup {1} : RemoveFileNumBegin(n)
    \/ WalkStep

SpecWalk == InitWalk /\ [][NextWalk]_vars

---------------------------------------------------------------------------
(* removeAll alone, by a thread that goes on running *)

\* the next statement of removeAll
RemoveAllStep ==
    \/ WalkOpendir
    \/ WalkReaddir
    \/ WalkClose
    \/ WalkDescend
    \/ WalkProcess
    \/ WalkAfter
    \/ WalkReturn
    \/ RemoveAllUnlink
    \/ RemoveAllClear

NextRemoveAll ==
    \/ \E removeDir \in BOOLEAN : RemoveAllBegin(removeDir)
    \/ RemoveAllStep

\* a statement of the call that can be executed is executed
SpecRemoveAll ==
    InitWalk /\ [][NextRemoveAll]_vars /\ WF_vars(RemoveAllStep)

---------------------------------------------------------------------------
(* Claims *)

Count(q, n) == Cardinality({i \in 1..Len(q) : q[i] = n})

\* C1: while the instance only enqueues and dequeues on an empty directory,
\* the numbers returned by removing getFileFromQueue calls followed by the
\* numbers still queued are the enqueued numbers in enqueue order, and a
\* removing getFileFromQueue that found a number leaves getQueueLen() one
\* smaller than it was.
C1_FifoOrder ==
    /\ hist.fifo => hist.deq \o queue = hist.enq
    /\ (last.op = "getFileFromQueue" /\ last.flag /\ last.q # <<>>) =>
           /\ last.ret = Head(last.q)
           /\ getQueueLen = last.preLen - 1

\* two different numbers were enqueued and both have been dequeued
C1_Witness ==
    /\ hist.fifo
    /\ Len(hist.enq) = 2
    /\ hist.enq[1] # hist.enq[2]
    /\ hist.deq = hist.enq
    /\ last.op = "getFileFromQueue"
    /\ last.flag
    /\ last.preLen = 1

\* no thread is inside a call
Quiet == \A t \in Threads : pc[t] = "idle"

\* C2: whenever no call is in progress, every number the producer has
\* enqueued has been returned to the consumer once and is not queued, or
\* has not been returned and is queued once.
C2_NoLossNoDuplicate ==
    Quiet =>
        \A i \in 1..Len(hist.enq) :
            Count(hist.deq, hist.enq[i]) + Count(queue, hist.enq[i]) = 1

\* C3: no call other than removeAll lowers lastFileNum.
C3_LastFileNumMonotone ==
    last.op \in {"scanDir", "reserveFile", "addFileToQueue",
                 "getFileFromQueue", "removeSecondFileInQueue"} =>
        lastFileNum >= last.preLast

\* C4: lastFileNum is at least every number in the queue.
C4_LastAtLeastQueued ==
    \A i \in 1..Len(queue) : lastFileNum >= queue[i]

\* C5: the queue never holds 0, reserveFile never returns 0, and
\* getFileFromQueue returns 0 exactly when it found the queue empty.
C5_ZeroIsSentinel ==
    /\ \A i \in 1..Len(queue) : queue[i] # 0
    /\ last.op = "reserveFile" => last.ret # 0
    /\ last.op = "getFileFromQueue" => (last.ret = 0 <=> last.q = <<>>)

\* scanDir has just run on an instance that held nothing in memory
FreshScan ==
    /\ last.op = "scanDir"
    /\ ~last.preScanned
    /\ last.q = <<>>
    /\ last.preLast = 0

\* the number a name starts with, read without a field width
LeadingNum(name) == DecVal(TakeDigits(name, Len(name)))

\* the whole name is a rendered number followed by "." and the configured
\* extension; with no extension configured, followed by nothing or by "."
\* and any extension
Conforms(name, ext) ==
    LET f == Format(LeadingNum(name))
        rest == SubSeq(name, Len(f) + 1, Len(name))
    IN  /\ TakeDigits(name, Len(name)) # <<>>
        /\ Len(name) >= Len(f)
        /\ SubSeq(name, 1, Len(f)) = f
        /\ IF ext # <<>> THEN rest = <<".">> \o ext
           ELSE rest = <<>> \/ Head(rest) = "."

\* the numbers of the conforming plain files of a listing, in listing order
RECURSIVE ConformingNums(_, _)
ConformingNums(d, ext) ==
    IF d = <<>> THEN <<>>
    ELSE (IF Head(d).type = "REG" /\ Conforms(Head(d).name, ext)
          THEN <<LeadingNum(Head(d).name)>> ELSE <<>>)
         \o ConformingNums(Tail(d), ext)

\* the numbers of the plain files that parse numerically and end with "."
\* and the extension, in listing order
RECURSIVE DotExtNums(_, _)
DotExtNums(d, ext) ==
    IF d = <<>> THEN <<>>
    ELSE (IF /\ Head(d).type = "REG"
             /\ Sscanf(Head(d).name).count = 1
             /\ EndsWith(Head(d).name, <<".">> \o ext)
          THEN <<Sscanf(Head(d).name).value>> ELSE <<>>)
         \o DotExtNums(Tail(d), ext)

\* C6: scanDir on a new instance queues, in listing order, the numbers of
\* the plain files whose whole name conforms to pattern and extension, and
\* nothing else; lastFileNum is the largest of them.
C6_ScanQueuesConforming ==
    FreshScan =>
        /\ queue = ConformingNums(dir, filenameExtension)
        /\ lastFileNum = ScanLast(ConformingNums(dir, filenameExtension), 0)

\* C7: with an extension configured, scanDir queues exactly the numerically
\* parsing plain files whose names end with "." and the extension.
C7_ScanNeedsDotExtension ==
    (FreshScan /\ filenameExtension # <<>>) =>
        /\ queue = DotExtNums(dir, filenameExtension)
        /\ lastFileNum = ScanLast(DotExtNums(dir, filenameExtension), 0)

\* C8: after scanDir on a new instance the queue holds one entry for every
\* queue file on disk and no other entry.
C8_RecoveredQueue ==
    FreshScan =>
        \A n \in (0..MaxFileNum) \cup {queue[i] : i \in 1..Len(queue)} :
            Count(queue, n) = Count(ConformingNums(dir, filenameExtension), n)

\* C9: between purges the directory is scanned at most once by the lazy
\* scan of the calls of the two threads.
C9_LazyScanOnce == scans <= 1

\* C10: removeAll(true) leaves an empty queue, no directory, lastFileNum 0
\* and scanDirCompleted false, and the reserveFile that follows returns 1.
C10_PurgeResets ==
    /\ (last.op = "removeAll" /\ last.flag) =>
           /\ getQueueLen = 0
           /\ ~dirExists
           /\ lastFileNum = 0
           /\ ~scanDirCompleted
    /\ (last.op = "reserveFile" /\ last.purged) => last.ret = 1

\* removeAll has just returned
Purged == last.op = "removeAll"

\* C11: when removeAll returns, the queue directory holds no entry at all,
\* whatever files and subdirectories it held.
C11_RemoveAllEmpties == Purged => dir = <<>>

\* the listing without the plain files whose name parses to n
WithoutNum(d, n) ==
    SelectSeq(d, LAMBDA e : ~(/\ e.type = "REG"
                              /\ Sscanf(e.name).count = 1
                              /\ Sscanf(e.name).value = n))

\* the listing without the plain file of number n that carries the
\* configured extension
WithoutConfigured(d, n) ==
    SelectSeq(d, LAMBDA e : ~(/\ e.type = "REG"
                              /\ e.name = Format(n) \o
                                     (IF filenameExtension = <<>> THEN <<>>
                                      ELSE <<".">> \o filenameExtension)))

\* C12: removeFileNum(n, true) deletes exactly the plain files whose name
\* parses to n, removeFileNum(n, false) exactly the file of number n with
\* the configured extension, and neither changes the queue or lastFileNum.
C12_RemoveFileNum ==
    [][last'.op = "removeFileNum" =>
          /\ dir' = IF last'.flag THEN WithoutNum(dir, last'.n)
                                  ELSE WithoutConfigured(dir, last'.n)
          /\ queue' = queue
          /\ lastFileNum' = lastFileNum]_vars

\* C13 as stated: every reserveFile returns one more than lastFileNum was
\* before the call and leaves the queue as it was before the call.
C13_ReserveNext ==
    last.op = "reserveFile" =>
        /\ last.ret = last.preLast + 1
        /\ getQueueLen = last.preLen

\* C13: a reserveFile called when the scan has completed returns one more
\* than lastFileNum was, makes that the new lastFileNum and leaves the queue
\* unchanged; a scan of an empty directory on a new instance leaves
\* lastFileNum 0, so that the reserveFile calls that follow return 1, 2, ...
C13_ReserveAfterScan ==
    /\ (last.op = "reserveFile" /\ last.preScanned) =>
           /\ last.ret = last.preLast + 1
           /\ lastFileNum = last.ret
           /\ queue = last.q
           /\ getQueueLen = last.preLen
    /\ (FreshScan /\ dir = <<>>) => lastFileNum = 0

\* the second reserveFile after the scan returned 2
C13_Witness ==
    /\ last.op = "reserveFile"
    /\ last.preScanned
    /\ last.preLast = 1
    /\ last.ret = 2
    /\ dir = <<>>

\* the path without its trailing separators
RECURSIVE Normal(_)
Normal(path) ==
    IF path # <<>> /\ path[Len(path)] = "/"
    THEN Normal(SubSeq(path, 1, Len(path) - 1)) ELSE path

\* C14: getInstance returns a registered instance, the one of the directory
\* asked for, and no two registered instances have the same normalized
\* directory path.
C14_Registry ==
    /\ last.op = "getInstance" =>
           /\ got.ret \in 1..Len(objects)
           /\ Normal(objects[got.ret]) = Normal(got.arg)
    /\ \A i, j \in 1..Len(objects) :
           i # j => Normal(objects[i]) # Normal(objects[j])

\* C15: the path withDirPath stores does not end with "/", and passing the
\* stored path to withDirPath again would store the same path.
C15_DirPathNormalized ==
    last.op = "withDirPath" =>
        /\ ~EndsWith(dirPath, <<"/">>)
        /\ StoredPath(dirPath) = dirPath

\* the path is empty or made of separators only
RootOnly(path) == \A i \in 1..Len(path) : path[i] = "/"

\* C16: with dirPath unset or root-only, scanDir returns false before it
\* touches the filesystem and leaves the queue, lastFileNum and
\* scanDirCompleted as they were.
C16_ScanRefusesRoot ==
    (last.op = "scanDir" /\ RootOnly(dirPath)) =>
        /\ last.ret = 0
        /\ scans = last.preScans
        /\ dirExists = last.preExists
        /\ queue = last.q
        /\ lastFileNum = last.preLast
        /\ scanDirCompleted = last.preScanned

\* the numbers reserveFile has returned, to either thread
Reserved == loc["producer"].res \o loc["consumer"].res

\* C17: no file number is returned by reserveFile twice, to the same thread
\* or to two threads.
C17_ReserveDistinct ==
    \A i, j \in 1..Len(Reserved) : i # j => Reserved[i] # Reserved[j]

\* the call recorded in last found a queue directory that could not be
\* created or opened
Unopenable ==
    \/ last.fault = "stat"
    \/ last.fault = "mkdir" /\ ~last.preExists
    \/ last.fault = "opendir"

\* the call recorded in last ran scanDir, which failed
LazyFailed == ~last.preScanned /\ Unopenable

\* C18: when the directory cannot be created or opened, scanDir returns
\* false and leaves queue, lastFileNum and scanDirCompleted as they were;
\* reserveFile, addFileToQueue and getFileFromQueue whose scan fails work
\* on the state in memory.
C18_ScanFailure ==
    /\ (last.op = "scanDir" /\ Unopenable) =>
           /\ last.ret = 0
           /\ queue = last.q
           /\ getQueueLen = last.preLen
           /\ lastFileNum = last.preLast
           /\ scanDirCompleted = last.preScanned
    /\ (last.op = "reserveFile" /\ LazyFailed) =>
           /\ last.ret = last.preLast + 1
           /\ lastFileNum = last.ret
           /\ getQueueLen = last.preLen
    /\ (last.op = "addFileToQueue" /\ LazyFailed) =>
           /\ queue = Append(last.q, last.n)
           /\ getQueueLen = last.preLen + 1
    /\ (last.op = "getFileFromQueue" /\ LazyFailed) =>
           /\ Len(last.q) = last.preLen
           /\ last.ret = (IF last.q = <<>> THEN 0 ELSE Head(last.q))
           /\ queue = (IF last.q # <<>> /\ last.flag THEN Tail(last.q)
                       ELSE last.q)

\* a number enqueued while the directory could not be opened is dequeued
\* while it still cannot be opened
C18_Witness ==
    /\ last.op = "getFileFromQueue"
    /\ LazyFailed
    /\ last.fault = "opendir"
    /\ last.flag
    /\ last.ret = 1
    /\ dir # <<>>

\* the queue without its element at index 1 (counted from 0)
WithoutSecond(q) == [i \in 1..(Len(q) - 1) |-> IF i = 1 THEN q[1] ELSE q[i + 1]]

\* C19 as stated: removeSecondFileInQueue returns 0 and leaves the queue as
\* it was whenever the queue held fewer than two elements when it was
\* called, and otherwise removes and returns the element at index 1.
C19_RemoveSecond ==
    last.op = "removeSecondFileInQueue" =>
        IF last.preLen >= 2
        THEN /\ last.ret = last.q[2]
             /\ queue = WithoutSecond(last.q)
        ELSE /\ last.ret = 0
             /\ getQueueLen = last.preLen

\* C19: once the scan has completed, removeSecondFileInQueue removes and
\* returns the element at index 1, keeping the head and the order of the
\* others, and with fewer than two elements returns 0 and leaves the queue
\* unchanged.
C19_RemoveSecondAfterScan ==
    (last.op = "removeSecondFileInQueue" /\ last.preScanned) =>
        /\ Len(last.q) = last.preLen
        /\ IF last.preLen >= 2
           THEN /\ last.ret = last.q[2]
                /\ queue = WithoutSecond(last.q)
                /\ getQueueLen = last.preLen - 1
           ELSE /\ last.ret = 0
                /\ queue = last.q

\* the second of three queued numbers was removed
C19_Witness ==
    /\ last.op = "removeSecondFileInQueue"
    /\ last.preScanned
    /\ last.preLen = 3
    /\ last.ret = last.q[2]
    /\ last.q[1] # last.q[2]
    /\ last.q[3] # last.q[2]
    /\ queue = <<last.q[1], last.q[3]>>

\* getFileFromQueue has just returned, called when the scan had completed
GotAfterScan == last.op = "getFileFromQueue" /\ last.preScanned

\* a peek and the getFileFromQueue that follows it return the same value
PeekThenGet ==
    (/\ last.op = "getFileFromQueue"
     /\ ~last.flag
     /\ last'.op = "getFileFromQueue") => last'.ret = last.ret

\* C20: once the scan has completed, getFileFromQueue(false) returns the
\* head of the queue, or 0 if it is empty, and leaves the queue and
\* lastFileNum as they were; the getFileFromQueue that follows a peek
\* returns what the peek returned; a removing getFileFromQueue on an empty
\* queue returns 0 and leaves the queue and lastFileNum as they were.
C20_PeekFrame ==
    /\ [](GotAfterScan =>
            /\ Len(last.q) = last.preLen
            /\ last.ret = (IF last.q = <<>> THEN 0 ELSE Head(last.q))
            /\ lastFileNum = last.preLast
            /\ (~last.flag \/ last.q = <<>>) => queue = last.q)
    /\ [][PeekThenGet]_vars

\* a peek at a queue of two different numbers returned the first
C20_Witness ==
    /\ GotAfterScan
    /\ ~last.flag
    /\ last.preLen = 2
    /\ last.q[1] # last.q[2]
    /\ last.ret = last.q[1]
    /\ queue = last.q

\* the thread is between os_mutex_lock and os_mutex_unlock
InCritical(t) == pc[t] \in {"critLoad", "critStore", "unlock"}

\* C21: at most one thread is inside a queue critical section, and at most
\* one mutex is ever created for the instance.
C21_MutualExclusion ==
    /\ \A t, u \in Threads : (InCritical(t) /\ InCritical(u)) => t = u
    /\ Cardinality(Created) <= 1

\* the same file number is at two places of the queue
Duplicate(q) == \E i, j \in 1..Len(q) : i # j /\ q[i] = q[j]

\* the caller has passed no number to addFileToQueue twice, has written no
\* second file for a number, and no number has two files in the directory
CallerKeptNumbersApart ==
    ~last.again /\ ~last.multi /\ OneFilePerNum(dir)

\* C22: as long as the caller passes each number to addFileToQueue at most
\* once and each number has at most one file on disk, the queue never holds
\* the same file number twice.
C22_NoDuplicateNumber == CallerKeptNumbersApart => ~Duplicate(queue)

\* C23: reserveFile never returns a number that a file of the queue
\* directory already carries, whatever the extension of that file and
\* whether or not the scan queued it.
C23_ReserveUnused ==
    last.op = "reserveFile" => last.ret \notin ParsedNums(dir)

\* C24: in the walk of findLeafEntry made by removeFileNum(n, true) and by
\* removeAll, readdir and closedir are never called on a handle that was
\* already closed, no handle is closed twice, and when the walk has
\* returned every handle it opened has been closed once.
C24_HandleSafety ==
    /\ ~walk.readClosed
    /\ ~walk.closeClosed
    /\ \A h \in 1..Len(walk.handles) : walk.handles[h].closes <= 1
    /\ walk.stack = <<>> =>
           \A h \in 1..Len(walk.handles) : walk.handles[h].closes = 1

\* C25: removeAll, once called, reaches the statements that clear the queue
\* and reset lastFileNum and scanDirCompleted, also when unlink fails.
C25_RemoveAllTerminates ==
    (walk.op = "removeAll") ~> (walk.op = "none" /\ last.op = "removeAll")

============================================================================
